---- MODULE Spec2Model ----
(***************************************************************************)
(* State-machine model of the two Tkinter programs of the repository:      *)
(*   Tela_grafica_sensor_luz.py   - class RadarLuxCam (radar of lux        *)
(*                                  readings taken from the webcam)        *)
(*   Tela_grafica_temperatura.py  - class App (temperature monitor with an *)
(*                                  acquisition thread and a GUI refresh)  *)
(*                                                                         *)
(* Conventions.                                                            *)
(*  - A lux value is the float (mean_intensity / 255.0) * amp.  It is kept *)
(*    exactly as the integer mean_intensity * amp, i.e. in units of 1/255  *)
(*    lux, so that no rounding is invented.  0.0 is 0.                     *)
(*  - Tk's timer queue is the number `pending` of _update callbacks that   *)
(*    self.after() has registered and that have not fired yet.             *)
(*  - Drawing (canvas, labels, axes limits) changes no field the program   *)
(*    reads back and is not part of the state; the data handed to the      *)
(*    matplotlib line is kept, as line_x and line_y.                       *)
(*  - nReads, stamp and last_op are history variables: the number of       *)
(*    cap.read() calls so far, for each slot the ordinal of the read whose *)
(*    value it holds (0: never written since the last reset), and the name *)
(*    of the operation that produced the current state.                    *)
(*  - The k-th value returned by ler_sensor() and the k-th elapsed time    *)
(*    are both represented by k, the ordinal of the acquisition iteration. *)
(***************************************************************************)
EXTENDS Integers, Sequences, FiniteSets

VARIABLES
    \* ---- RadarLuxCam ----
    readings,       \* self.readings : list of 360 lux values
    angle,          \* self.angle
    running,        \* self.running
    pending,        \* number of pending self.after(..., self._update) callbacks
    sweep_var,      \* self.sweep_var (IntVar bound to the Sweep scale)
    amplitude_var,  \* self.amplitude_var (IntVar)
    nReads,         \* history: number of camera reads performed
    stamp,          \* history: stamp[a] = ordinal of the read stored in slot a
    last_op,        \* history: operation that produced this state
    \* ---- App (temperature) ----
    temps,          \* self.temps : deque(maxlen=MAX_PONTOS)
    times,          \* self.times : deque(maxlen=MAX_PONTOS)
    acq_pc,         \* position of the acquisition thread in aquisicao()
    n_iter,         \* number of iterations of aquisicao() started
    temp,           \* local `temp` of aquisicao()
    t,              \* local `t` of aquisicao()
    gui_pc,         \* position of update_gui()
    line_x,         \* x data handed to self.line.set_data (read from self.times)
    line_y          \* y data handed to self.line.set_data (read from self.temps)

radarVars == <<readings, angle, running, pending, sweep_var, amplitude_var,
               nReads, stamp, last_op>>
tempVars  == <<temps, times, acq_pc, n_iter, temp, t, gui_pc, line_x, line_y>>
vars      == <<radarVars, tempVars>>

----------------------------------------------------------------------------
\* Program constants

\* len(self.readings): [0.0] * 360, and the modulus of the angle
N_SLOTS == 360

\* tk.IntVar(value=2) of sweep_var
SWEEP_DEFAULT == 2

\* ttk.Scale(from_=1, to=10) bound to sweep_var
SWEEP_MIN == 1

SWEEP_MAX == 10

\* tk.IntVar(value=1000) of amplitude_var
AMPLITUDE_DEFAULT == 1000

\* MAX_PONTOS = 120
MAX_PONTOS == 120

----------------------------------------------------------------------------
\* Bounds of the model

\* camera reads performed in the full radar specification
MaxReads == 2

\* pending timer callbacks above which start() is no longer explored
MaxPending == 2

\* camera reads performed in the long-sweep specification (> N_SLOTS)
MaxSweepReads == 365

\* iterations of the acquisition loop (N + k appends, k = 30)
MaxSamples == 150

----------------------------------------------------------------------------
\* Input sets

Slots == 0 .. (N_SLOTS - 1)

SweepRange == SWEEP_MIN .. SWEEP_MAX

\* values the Sweep scale is moved to in the full radar specification
SweepChoices == {SWEEP_MIN, SWEEP_MAX}

\* mean gray levels of a frame, out of 0..255
Intensities == {128, 255}

----------------------------------------------------------------------------
\* RadarLuxCam

\* _read_lux_from_camera: ret is the flag of cap.read(); a failed read yields 0.0
read_lux_fail_keeps_scale(ret, mean_intensity, amp) ==
    mean_intensity * amp

read_lux_from_camera(ret, mean_intensity, amp) ==
    IF ~ret THEN 0 ELSE mean_intensity * amp

\* self.readings[self.angle] = lux_val
store_next_slot(r, a, v) ==
    [r EXCEPT ![(a + 1) % N_SLOTS] = v]

store_reading(r, a, v) ==
    [r EXCEPT ![a] = v]

\* self.angle = (self.angle + self.sweep_var.get()) % 360
next_angle_no_wrap(a, s) ==
    a + s

next_angle(a, s) ==
    (a + s) % N_SLOTS

\* _schedule_next: registers one more callback when running, else nothing
schedule_next_never(run, p) ==
    p

schedule_next(run, p) ==
    IF run THEN p + 1 ELSE p

\* start(): button Start
start ==
    /\ IF ~running
          THEN /\ running' = TRUE
               /\ pending' = schedule_next(TRUE, pending)
               /\ last_op' = "start"
          ELSE /\ UNCHANGED <<running, pending>>
               /\ last_op' = "start_noop"
    /\ UNCHANGED <<readings, angle, sweep_var, amplitude_var, nReads, stamp>>
    /\ UNCHANGED tempVars

\* stop(): button Stop
stop ==
    /\ running' = FALSE
    /\ last_op' = "stop"
    /\ UNCHANGED <<readings, angle, pending, sweep_var, amplitude_var, nReads, stamp>>
    /\ UNCHANGED tempVars

\* reset(): button Reset
reset_keeps_angle ==
    /\ readings' = [a \in Slots |-> 0]
    /\ stamp' = [a \in Slots |-> 0]
    /\ last_op' = "reset"
    /\ UNCHANGED <<angle, running, pending, sweep_var, amplitude_var, nReads>>
    /\ UNCHANGED tempVars

reset_stops ==
    /\ readings' = [a \in Slots |-> 0]
    /\ stamp' = [a \in Slots |-> 0]
    /\ angle' = 0
    /\ running' = FALSE
    /\ last_op' = "reset"
    /\ UNCHANGED <<pending, sweep_var, amplitude_var, nReads>>
    /\ UNCHANGED tempVars

reset ==
    /\ readings' = [a \in Slots |-> 0]
    /\ stamp' = [a \in Slots |-> 0]
    /\ angle' = 0
    /\ last_op' = "reset"
    /\ UNCHANGED <<running, pending, sweep_var, amplitude_var, nReads>>
    /\ UNCHANGED tempVars

\* the Sweep scale is moved: sweep_var takes a value of its range
set_sweep(s) ==
    /\ sweep_var' = s
    /\ last_op' = "set_sweep"
    /\ UNCHANGED <<readings, angle, running, pending, amplitude_var, nReads, stamp>>
    /\ UNCHANGED tempVars

\* _update(): a pending timer callback fires.  ret and mean_intensity are
\* what the camera delivers for this frame.
update_ignores_running(ret, mean_intensity) ==
    /\ pending > 0
    /\ LET lux_val == read_lux_from_camera(ret, mean_intensity, amplitude_var)
       IN  /\ readings' = store_reading(readings, angle, lux_val)
           /\ stamp' = store_reading(stamp, angle, nReads + 1)
           /\ nReads' = nReads + 1
           /\ angle' = next_angle(angle, sweep_var)
           /\ pending' = schedule_next(running, pending - 1)
           /\ last_op' = IF ret THEN "tick_ok" ELSE "tick_fail"
           /\ UNCHANGED <<running, sweep_var, amplitude_var>>
    /\ UNCHANGED tempVars

update(ret, mean_intensity) ==
    /\ pending > 0
    /\ IF ~running
          THEN /\ pending' = pending - 1
               /\ last_op' = "fire_noop"
               /\ UNCHANGED <<readings, angle, running, sweep_var, amplitude_var,
                              nReads, stamp>>
          ELSE LET lux_val == read_lux_from_camera(ret, mean_intensity, amplitude_var)
               IN  /\ readings' = store_reading(readings, angle, lux_val)
                   /\ stamp' = store_reading(stamp, angle, nReads + 1)
                   /\ nReads' = nReads + 1
                   /\ angle' = next_angle(angle, sweep_var)
                   /\ pending' = schedule_next(running, pending - 1)
                   /\ last_op' = IF ret THEN "tick_ok" ELSE "tick_fail"
                   /\ UNCHANGED <<running, sweep_var, amplitude_var>>
    /\ UNCHANGED tempVars

----------------------------------------------------------------------------
\* App (temperature monitor)

\* collections.deque(maxlen=n).append(x): x goes to the right end and, when
\* the deque is then longer than maxlen, the leftmost element is discarded
deque_append_unbounded(d, x, maxlen) ==
    Append(d, x)

deque_append(d, x, maxlen) ==
    LET e == Append(d, x)
    IN  IF Len(e) > maxlen THEN Tail(e) ELSE e

\* aquisicao(), lines 67-68: temp = self.ler_sensor(); t = time.time() - start
aquisicao_read ==
    /\ acq_pc = "read"
    /\ n_iter' = n_iter + 1
    /\ temp' = n_iter + 1
    /\ t' = n_iter + 1
    /\ acq_pc' = "append_temps"
    /\ UNCHANGED <<temps, times, gui_pc, line_x, line_y>>
    /\ UNCHANGED radarVars

\* aquisicao(), line 69: self.temps.append(temp)
aquisicao_append_temps ==
    /\ acq_pc = "append_temps"
    /\ temps' = deque_append(temps, temp, MAX_PONTOS)
    /\ acq_pc' = "append_times"
    /\ UNCHANGED <<times, n_iter, temp, t, gui_pc, line_x, line_y>>
    /\ UNCHANGED radarVars

\* aquisicao(), line 70: self.times.append(t)
aquisicao_append_times ==
    /\ acq_pc = "append_times"
    /\ times' = deque_append(times, t, MAX_PONTOS)
    /\ acq_pc' = "sleep"
    /\ UNCHANGED <<temps, n_iter, temp, t, gui_pc, line_x, line_y>>
    /\ UNCHANGED radarVars

\* aquisicao(), line 71: time.sleep(INTERVALO_S) returns, the loop goes round
aquisicao_sleep ==
    /\ acq_pc = "sleep"
    /\ acq_pc' = "read"
    /\ UNCHANGED <<temps, times, n_iter, temp, t, gui_pc, line_x, line_y>>
    /\ UNCHANGED radarVars

\* update_gui(), lines 87-89 (and 98 when the deque is empty): the timer
\* fires; with a non-empty deque the label is redrawn from self.temps[-1]
update_gui_check ==
    /\ gui_pc = "check"
    /\ IF temps # <<>>
          THEN gui_pc' = "set_data"
          ELSE UNCHANGED gui_pc
    /\ UNCHANGED <<temps, times, acq_pc, n_iter, temp, t, line_x, line_y>>
    /\ UNCHANGED radarVars

\* update_gui(), lines 92-98: self.line.set_data(self.times, self.temps),
\* then the next refresh is scheduled.  The two deques are read at one
\* instant, the best the GUI thread can do for itself: a thread switch
\* between the two reads only adds further mismatched pairs.
update_gui_set_data ==
    /\ gui_pc = "set_data"
    /\ line_x' = times
    /\ line_y' = temps
    /\ gui_pc' = "check"
    /\ UNCHANGED <<temps, times, acq_pc, n_iter, temp, t>>
    /\ UNCHANGED radarVars

----------------------------------------------------------------------------
\* State after construction of both windows

Init ==
    /\ readings = [a \in Slots |-> 0]
    /\ angle = 0
    /\ running = FALSE
    /\ pending = 0
    /\ sweep_var = SWEEP_DEFAULT
    /\ amplitude_var = AMPLITUDE_DEFAULT
    /\ nReads = 0
    /\ stamp = [a \in Slots |-> 0]
    /\ last_op = "init"
    /\ temps = <<>>
    /\ times = <<>>
    /\ acq_pc = "read"
    /\ n_iter = 0
    /\ temp = 0
    /\ t = 0
    /\ gui_pc = "check"
    /\ line_x = <<>>
    /\ line_y = <<>>

\* A pending callback fires, with whatever the camera delivers
TimerFires ==
    \E ret \in BOOLEAN, m \in Intensities :
        (running => nReads < MaxReads) /\ update(ret, m)

\* The radar under every order of the buttons, the scale and the timer
NextRadar ==
    \/ (pending < MaxPending \/ running) /\ start
    \/ stop
    \/ reset
    \/ \E s \in SweepChoices : set_sweep(s)
    \/ TimerFires

SpecRadar == Init /\ [][NextRadar]_vars

\* Tk's main loop fires every timer that is due: a pending callback is not
\* left waiting for ever
SpecRadarFair == SpecRadar /\ WF_vars(TimerFires)

\* The radar started once with the scale left where it was put before the
\* start, a camera that delivers every frame at a constant gray level, and no
\* button pressed afterwards: MaxSweepReads consecutive ticks
NextSweep ==
    \/ (~running /\ pending = 0 /\ nReads = 0) /\ \E s \in SweepRange : set_sweep(s)
    \/ (~running /\ pending = 0 /\ nReads = 0) /\ start
    \/ nReads < MaxSweepReads /\ update(TRUE, 128)

SpecSweep == Init /\ [][NextSweep]_vars

\* The temperature monitor: the acquisition thread and the GUI refresh,
\* interleaved at the statements above
NextTemp ==
    \/ n_iter < MaxSamples /\ aquisicao_read
    \/ aquisicao_append_temps
    \/ aquisicao_append_times
    \/ aquisicao_sleep
    \/ update_gui_check
    \/ update_gui_set_data

SpecTemp == Init /\ [][NextTemp]_vars

----------------------------------------------------------------------------
\* Helpers of the properties

Min(a, b) == IF a < b THEN a ELSE b

RECURSIVE GCD(_, _)
GCD(a, b) == IF b = 0 THEN a ELSE GCD(b, a % b)

\* number of append() calls made so far on self.temps and on self.times
AppendsToTemps == IF acq_pc = "append_temps" THEN n_iter - 1 ELSE n_iter

AppendsToTimes ==
    IF acq_pc \in {"append_temps", "append_times"} THEN n_iter - 1 ELSE n_iter

\* the last Min(k, MAX_PONTOS) of the samples 1..k, oldest first
LastAppended(k) ==
    [i \in 1 .. Min(k, MAX_PONTOS) |->
        (IF k > MAX_PONTOS THEN k - MAX_PONTOS ELSE 0) + i]

AllZero(r) == \A a \in Slots : r[a] = 0

----------------------------------------------------------------------------
\* Properties

\* C1: after any number of appends each deque holds exactly the last
\* MAX_PONTOS appended samples (all of them while fewer were appended), in
\* insertion order, and never more than MAX_PONTOS elements.
C1_BufferRetention ==
    /\ Len(temps) <= MAX_PONTOS
    /\ Len(times) <= MAX_PONTOS
    /\ temps = LastAppended(AppendsToTemps)
    /\ times = LastAppended(AppendsToTimes)

\* C1 witness: capacity 120, 150 samples appended, samples 31..150 retained
C1_Witness ==
    /\ n_iter = 150
    /\ acq_pc = "sleep"
    /\ Len(temps) = MAX_PONTOS
    /\ temps[1] = 31
    /\ temps[MAX_PONTOS] = 150
    /\ times[1] = 31

\* C2: the state right after reset() has 360 readings, all 0, and angle 0,
\* whatever the run state and the timer queue.
C2_ResetClears ==
    last_op = "reset" =>
        /\ DOMAIN readings = Slots
        /\ AllZero(readings)
        /\ angle = 0

\* C2 witness: reset() pressed while running, a callback pending, after some
\* readings were taken
C2_Witness ==
    /\ last_op = "reset"
    /\ running
    /\ pending >= 1
    /\ nReads = MaxReads

\* C3: reset() can be invoked in every state, and it changes neither running
\* nor the pending timer callbacks.
C3_ResetKeepsRunState ==
    /\ [](ENABLED reset)
    /\ [][last_op' = "reset" => (running' = running /\ pending' = pending)]_vars

\* C3 witness: reset() pressed on a running radar that keeps running with its
\* callback pending
C3_Witness ==
    /\ last_op = "reset"
    /\ running
    /\ pending = 1
    /\ nReads >= 1

\* C4: a tick whose camera read fails stores 0 in readings[angle], leaves the
\* other slots alone, advances the angle and re-registers the callback as a
\* successful tick does, and running stays true.
C4_ReadFailureIsZero ==
    [][last_op' \in {"tick_ok", "tick_fail"} /\ nReads' # nReads =>
          /\ last_op' = "tick_fail" => readings'[angle] = 0
          /\ \A b \in Slots \ {angle} : readings'[b] = readings[b]
          /\ angle' = (angle + sweep_var) % N_SLOTS
          /\ pending' = pending
          /\ running /\ running']_vars

\* C4 witness: a successful tick at slot 0, then a tick whose read failed
C4_Witness ==
    /\ last_op = "tick_fail"
    /\ running
    /\ pending >= 1
    /\ nReads = 2
    /\ stamp[0] = 1
    /\ readings[0] # 0
    /\ \E a \in Slots : stamp[a] = 2 /\ readings[a] = 0

\* C5: at most one _update callback is pending at any time.
C5_SingleTimerLoop == pending <= 1

\* C6: the data update_gui hands to the line are two sequences of equal
\* length whose i-th elements come from the same acquisition iteration.
C6_ConsistentSnapshot ==
    /\ Len(line_x) = Len(line_y)
    /\ \A i \in 1 .. Min(Len(line_x), Len(line_y)) : line_x[i] = line_y[i]

\* C7: whenever running is true a callback for _update is pending, and, the
\* timers firing fairly, a running radar that has taken n readings goes on to
\* take another one unless stop() is invoked first.
C7_SelfReschedules ==
    /\ [](running => pending >= 1)
    /\ \A n \in 0 .. (MaxReads - 1) :
          (running /\ nReads = n) ~> (~running \/ nReads > n)

\* C7 witness: a tick has run and has re-registered its callback
C7_Witness ==
    /\ running
    /\ last_op = "tick_ok"
    /\ pending = 1
    /\ nReads = MaxReads

\* C8 as stated: after 360 or more consecutive ticks the 360 slots hold
\* exactly the 360 most recent reads.
C8_AllSlotsMostRecent ==
    nReads >= N_SLOTS =>
        {stamp[a] : a \in Slots} = (nReads - N_SLOTS + 1) .. nReads

\* C8 amended: with the sweep step s held fixed, g = gcd(s, 360) and
\* p = 360 / g, after p or more consecutive ticks from angle 0 and a zeroed
\* buffer, the p slots at the multiples of g hold exactly the p most recent
\* reads, the slot under the beam holding the oldest of them (the next one to
\* be replaced), and the other slots were never written.
C8_VisitedSlotsMostRecent ==
    LET g == GCD(sweep_var, N_SLOTS)
        p == N_SLOTS \div g
    IN  nReads >= p =>
            /\ {stamp[a] : a \in {b \in Slots : b % g = 0}} = (nReads - p + 1) .. nReads
            /\ \A a \in Slots : a % g # 0 => (stamp[a] = 0 /\ readings[a] = 0)
            /\ stamp[angle] = nReads - p + 1

\* C8 witness: step 2, more than 360 ticks, the odd slots never sampled
C8_Witness ==
    /\ sweep_var = 2
    /\ nReads > N_SLOTS
    /\ stamp[1] = 0
    /\ stamp[0] = nReads - 4

\* C9: while the radar stays stopped, no step registers a callback, only
\* reset() changes readings or angle, and a callback that fires is consumed
\* without effect.
C9_StopIsEffective ==
    [][(~running /\ ~running') =>
          /\ pending' <= pending
          /\ (readings' # readings \/ angle' # angle) => last_op' = "reset"
          /\ pending' < pending =>
                (pending' = pending - 1 /\ UNCHANGED <<readings, angle, nReads>>)]_vars

\* C9 witness: a callback left pending by stop() has fired after readings
\* were taken, and nothing is pending any more
C9_Witness ==
    /\ last_op = "fire_noop"
    /\ ~running
    /\ pending = 0
    /\ nReads >= 1
    /\ ~AllZero(readings)

\* C10: angle stays in 0..359 and the buffer keeps its 360 slots; a tick
\* takes one reading, writes the slot under the beam and no other, and moves
\* the beam to (angle + sweep) mod 360.
C10_TickFrame ==
    /\ [](angle \in Slots /\ DOMAIN readings = Slots /\ sweep_var \in SweepRange)
    /\ [][nReads' # nReads =>
            /\ nReads' = nReads + 1
            /\ stamp'[angle] = nReads'
            /\ \A b \in Slots \ {angle} :
                  stamp'[b] = stamp[b] /\ readings'[b] = readings[b]
            /\ angle' = (angle + sweep_var) % N_SLOTS]_vars

\* C10 witness: with step 7 the beam has wrapped from 357 to 4
C10_Witness ==
    /\ sweep_var = 7
    /\ nReads = 52
    /\ angle = 4
    /\ stamp[357] = 52

====
